---- MODULE Spec2Model ----
(***************************************************************************)
(* Deadline-enforcing wrappers over net.Conn and net.Listener              *)
(* (package timeout, src/timeout.go; package httptimeout,                  *)
(* src/unnamed/part_000).                                                  *)
(*                                                                         *)
(* The wall clock is the integer `now`; time.Time{} (no deadline) is 0 and *)
(* the clock starts at 1.  The standard library's net.Conn / net.Listener  *)
(* are the environment: a socket has an open flag and two absolute         *)
(* deadlines, a pending I/O call fails with "timeout" once the clock has   *)
(* reached its deadline, and every call on a closed socket fails with      *)
(* "closed".                                                               *)
(***************************************************************************)
EXTENDS Integers, Sequences, FiniteSets, TLC

VARIABLES
    now,      \* time.Now()
    lst,      \* the *Listener objects, by address
    bound,    \* addresses with a listening socket bound in the OS
    ctor,     \* the NewListenerTLS call in progress
    tr,       \* the variables captured by the *http.Transport's Dial closure
    conns,    \* the *Conn wrappers, in creation order
    sock,     \* the underlying net.Conn of each wrapper
    rcall,    \* per wrapper: the Conn.Read call in progress
    wcall,    \* per wrapper: the Conn.Write call in progress
    ev        \* what the last step returned to its caller

vars == <<now, lst, bound, ctor, tr, conns, sock, rcall, wcall, ev>>

\* ---------------------------------------------------------------- bounds
MaxTime == 3
MaxTimeout == 1
MaxConns == 2
MaxBuf == 2

Durations == 0..MaxTimeout
\* The addresses the server listens on: plain on one, TLS on the other.
PlainAddr == ":80"
TLSAddr == ":443"
LIds == {PlainAddr, TLSAddr}
CIds == 1..MaxConns

\* ------------------------------------------------------------ plain data
\* One call on the underlying object and what it returned.
U(m, arg, n, err) == [m |-> m, arg |-> arg, n |-> n, err |-> err]

NoEv ==
    [op |-> "none", on |-> 0, conn |-> 0, start |-> 0, n |-> 0, err |-> "nil", under |-> <<>>]
Ret(op, on, conn, start, n, err, under) ==
    [op |-> op, on |-> on, conn |-> conn, start |-> start, n |-> n, err |-> err, under |-> under]

\* A call in progress: when it started, the deadline it replaced, and the calls
\* it has made on the underlying connection.
NoCall == [start |-> 0, was |-> 0, under |-> <<>>]
NoListener == [state |-> "none", ReadTimeout |-> 0, WriteTimeout |-> 0, NextProtos |-> <<>>]
NoCtor == [pc |-> 0, l |-> "", ReadTimeout |-> 0, WriteTimeout |-> 0, under |-> <<>>]
NoTransport == [pkg |-> "none", timeout |-> 0, readTimeout |-> 0, writeTimeout |-> 0]

\* time.Time.Add
Add(t, d) == t + d

Init ==
    /\ now = 1
    /\ lst = [l \in LIds |-> NoListener]
    /\ bound = {}
    /\ ctor = NoCtor
    /\ tr = NoTransport
    /\ conns = <<>>
    /\ sock = <<>>
    /\ rcall = [c \in CIds |-> NoCall]
    /\ wcall = [c \in CIds |-> NoCall]
    /\ ev = NoEv

\* The clock advances.
Tick ==
    /\ now < MaxTime
    /\ now' = now + 1
    /\ ev' = NoEv
    /\ UNCHANGED <<lst, bound, ctor, tr, conns, sock, rcall, wcall>>

\* ------------------------------------------------- the underlying net.Conn
\* A nil or closed connection refuses every call.
IsOpen(s) == s \in DOMAIN sock /\ sock[s].open

\* The error of net.Conn.SetReadDeadline / SetWriteDeadline.
SetDeadlineErr(s) == IF IsOpen(s) THEN "nil" ELSE "closed"

\* Faulty variant: Conn.Read calls SetDeadline, which moves both deadlines.
SetDeadlineBoth(s, t) == [sock EXCEPT ![s].rdl = t, ![s].wdl = t]

\* c.Conn.SetReadDeadline(t), as called by Conn.Read.
SetReadDeadline(s, t) == [sock EXCEPT ![s].rdl = t]

\* Faulty variant: Conn.Write calls SetReadDeadline.
SetReadDeadlineInWrite(s, t) == [sock EXCEPT ![s].rdl = t]

\* c.Conn.SetWriteDeadline(t), as called by Conn.Write.
SetWriteDeadline(s, t) == [sock EXCEPT ![s].wdl = t]

Expired(d) == d # 0 /\ now >= d

\* What a pending net.Conn.Read can return other than a timeout: data (possibly
\* fewer bytes than len(b)) or end of stream from the peer, "closed" after a
\* local Close.
ReadOutcomes(s) ==
    IF ~IsOpen(s) THEN {[n |-> 0, err |-> "closed"]}
    ELSE IF Expired(sock[s].rdl) THEN {}
    ELSE {[n |-> k, err |-> "nil"] : k \in 1..MaxBuf} \cup {[n |-> 0, err |-> "EOF"]}

\* Likewise for net.Conn.Write: everything written, or a reset by the peer.
WriteOutcomes(s) ==
    IF ~IsOpen(s) THEN {[n |-> 0, err |-> "closed"]}
    ELSE IF Expired(sock[s].wdl) THEN {}
    ELSE {[n |-> MaxBuf, err |-> "nil"], [n |-> 0, err |-> "reset"]}

\* --------------------------------------------------------------- type Conn
\* Faulty variant: the deadline is time.Now(), the timeout is not added.
ReadDeadlineNow(c) == now

\* time.Now().Add(c.ReadTimeout)
ReadDeadline(c) == Add(now, conns[c].ReadTimeout)

\* Faulty variant: Conn.Write adds the read timeout.
WriteDeadlineOfRead(c) == Add(now, conns[c].ReadTimeout)

\* time.Now().Add(c.WriteTimeout)
WriteDeadline(c) == Add(now, conns[c].WriteTimeout)

\* Faulty variant: the error of SetReadDeadline is not checked.
ReadNeverFails(err) == FALSE

\* if err != nil { return 0, err }
ReadFails(err) == err # "nil"

\* if err != nil { return 0, err }
WriteFails(err) == err # "nil"

\* Faulty variant: the error of the underlying call is dropped.
ResultWithoutError(res) == [n |-> res.n, err |-> "nil"]

\* return c.Conn.Read(b) / return c.Conn.Write(b)
Result(res) == res

\* Conn.Read up to the point where the underlying Read blocks.
Read(c) ==
    /\ c \in DOMAIN conns
    /\ rcall[c] = NoCall
    /\ LET s == conns[c].Conn
           t == ReadDeadline(c)
           err == SetDeadlineErr(s)
           set == U("SetReadDeadline", t, 0, err)
       IN /\ t <= MaxTime  \* the model's clock ends at MaxTime
          /\ sock' = IF err = "nil" THEN SetReadDeadline(s, t) ELSE sock
          /\ IF ReadFails(err)
             THEN /\ ev' = Ret("Read", c, 0, now, 0, err, <<set>>)
                  /\ rcall' = rcall
             ELSE /\ ev' = NoEv
                  /\ rcall' = [rcall EXCEPT ![c] =
                         [start |-> now, was |-> sock[s].rdl,
                          under |-> <<set, U("Read", MaxBuf, 0, "pending")>>]]
    /\ UNCHANGED <<now, lst, bound, ctor, tr, conns, wcall>>

\* The underlying Read returns and Conn.Read returns with it.
ReadReturn(c, res) ==
    /\ ev' = Ret("Read", c, 0, rcall[c].start, Result(res).n, Result(res).err,
                 <<rcall[c].under[1], U("Read", MaxBuf, res.n, res.err)>>)
    /\ rcall' = [rcall EXCEPT ![c] = NoCall]
    /\ UNCHANGED <<now, lst, bound, ctor, tr, conns, sock, wcall>>

ReadDone(c) ==
    /\ c \in DOMAIN conns
    /\ rcall[c] # NoCall
    /\ \E res \in ReadOutcomes(conns[c].Conn) : ReadReturn(c, res)

\* The read deadline passes while the underlying Read is blocked.
ReadDeadlineExceeded(c) ==
    /\ c \in DOMAIN conns
    /\ rcall[c] # NoCall
    /\ IsOpen(conns[c].Conn)
    /\ Expired(sock[conns[c].Conn].rdl)
    /\ ReadReturn(c, [n |-> 0, err |-> "timeout"])

\* Conn.Write up to the point where the underlying Write blocks.
Write(c) ==
    /\ c \in DOMAIN conns
    /\ wcall[c] = NoCall
    /\ LET s == conns[c].Conn
           t == WriteDeadline(c)
           err == SetDeadlineErr(s)
           set == U("SetWriteDeadline", t, 0, err)
       IN /\ t <= MaxTime  \* the model's clock ends at MaxTime
          /\ sock' = IF err = "nil" THEN SetWriteDeadline(s, t) ELSE sock
          /\ IF WriteFails(err)
             THEN /\ ev' = Ret("Write", c, 0, now, 0, err, <<set>>)
                  /\ wcall' = wcall
             ELSE /\ ev' = NoEv
                  /\ wcall' = [wcall EXCEPT ![c] =
                         [start |-> now, was |-> sock[s].wdl,
                          under |-> <<set, U("Write", MaxBuf, 0, "pending")>>]]
    /\ UNCHANGED <<now, lst, bound, ctor, tr, conns, rcall>>

WriteReturn(c, res) ==
    /\ ev' = Ret("Write", c, 0, wcall[c].start, Result(res).n, Result(res).err,
                 <<wcall[c].under[1], U("Write", MaxBuf, res.n, res.err)>>)
    /\ wcall' = [wcall EXCEPT ![c] = NoCall]
    /\ UNCHANGED <<now, lst, bound, ctor, tr, conns, sock, rcall>>

WriteDone(c) ==
    /\ c \in DOMAIN conns
    /\ wcall[c] # NoCall
    /\ \E res \in WriteOutcomes(conns[c].Conn) : WriteReturn(c, res)

\* The write deadline passes while the underlying Write is blocked; part of the
\* buffer may have been sent.
WriteDeadlineExceeded(c) ==
    /\ c \in DOMAIN conns
    /\ wcall[c] # NoCall
    /\ IsOpen(conns[c].Conn)
    /\ Expired(sock[conns[c].Conn].wdl)
    /\ \E k \in 0..(MaxBuf - 1) : WriteReturn(c, [n |-> k, err |-> "timeout"])

\* Conn.Close is the embedded net.Conn's Close.
ConnClose(c) ==
    /\ c \in DOMAIN conns
    /\ LET s == conns[c].Conn
       IN IF IsOpen(s)
          THEN /\ sock' = [sock EXCEPT ![s].open = FALSE]
               /\ ev' = Ret("Close", c, 0, now, 0, "nil", <<U("Close", 0, 0, "nil")>>)
          ELSE /\ sock' = sock
               /\ ev' = Ret("Close", c, 0, now, 0, "closed", <<U("Close", 0, 0, "closed")>>)
    /\ UNCHANGED <<now, lst, bound, ctor, tr, conns, rcall, wcall>>

\* ----------------------------------------------------------- type Listener
NewSock == [open |-> TRUE, rdl |-> 0, wdl |-> 0]

\* What the underlying net.Listener.Accept can return: the next connection, a
\* transient failure, or "closed" once the listener is closed.
AcceptOutcomes(l) ==
    IF lst[l].state = "closed" THEN {[c |-> 0, err |-> "closed"]}
    ELSE {[c |-> 0, err |-> "aborted"]}
         \cup (IF Len(sock) < MaxConns THEN {[c |-> Len(sock) + 1, err |-> "nil"]} ELSE {})

\* if err != nil { return nil, err }
AcceptFails(err) == err # "nil"

\* Faulty variant: the two timeouts are exchanged.
AcceptConnSwapped(l, s) ==
    [Conn |-> s, ReadTimeout |-> lst[l].WriteTimeout,
     WriteTimeout |-> lst[l].ReadTimeout, from |-> l]

\* tc := &Conn{Conn: c, ReadTimeout: l.ReadTimeout, WriteTimeout: l.WriteTimeout}
AcceptConn(l, s) ==
    [Conn |-> s, ReadTimeout |-> lst[l].ReadTimeout,
     WriteTimeout |-> lst[l].WriteTimeout, from |-> l]

\* Listener.Accept
Accept(l) ==
    /\ lst[l].state # "none"
    /\ \E res \in AcceptOutcomes(l) :
          LET call == U("Accept", 0, res.c, res.err)
          IN /\ sock' = IF res.err = "nil" THEN Append(sock, NewSock) ELSE sock
             /\ IF AcceptFails(res.err)
                THEN /\ conns' = conns
                     /\ ev' = Ret("Accept", l, 0, now, 0, res.err, <<call>>)
                ELSE /\ Len(conns) < MaxConns
                     /\ conns' = Append(conns, AcceptConn(l, res.c))
                     /\ ev' = Ret("Accept", l, Len(conns) + 1, now, 0, "nil", <<call>>)
    /\ UNCHANGED <<now, lst, bound, ctor, tr, rcall, wcall>>

\* Faulty variant: closing the listener also closes the connections it accepted.
ListenerCloseAll(l) ==
    /\ lst[l].state = "open"
    /\ lst' = [lst EXCEPT ![l].state = "closed"]
    /\ bound' = bound \ {l}
    /\ sock' = [s \in DOMAIN sock |->
                 IF \E c \in DOMAIN conns : conns[c].Conn = s /\ conns[c].from = l
                 THEN [sock[s] EXCEPT !.open = FALSE] ELSE sock[s]]
    /\ ev' = Ret("ListenerClose", l, 0, now, 0, "nil", <<U("Close", 0, 0, "nil")>>)
    /\ UNCHANGED <<now, ctor, tr, conns, rcall, wcall>>

\* Listener.Close is the embedded net.Listener's Close.
ListenerClose(l) ==
    /\ lst[l].state # "none"
    /\ IF lst[l].state = "open"
       THEN /\ lst' = [lst EXCEPT ![l].state = "closed"]
            /\ bound' = bound \ {l}
            /\ ev' = Ret("ListenerClose", l, 0, now, 0, "nil", <<U("Close", 0, 0, "nil")>>)
       ELSE /\ UNCHANGED <<lst, bound>>
            /\ ev' = Ret("ListenerClose", l, 0, now, 0, "closed", <<U("Close", 0, 0, "closed")>>)
    /\ UNCHANGED <<now, ctor, tr, conns, sock, rcall, wcall>>

\* NewListener: net.Listen, then the wrapper.
NewListener(l, readTimeout, writeTimeout) ==
    /\ lst[l].state = "none"
    /\ ctor.l # l
    /\ \E ok \in BOOLEAN :
          IF ok
          THEN /\ bound' = bound \cup {l}
               /\ lst' = [lst EXCEPT ![l] =
                     [state |-> "open", ReadTimeout |-> readTimeout,
                      WriteTimeout |-> writeTimeout, NextProtos |-> <<>>]]
               /\ ev' = Ret("NewListener", l, 0, now, 0, "nil", <<U("Listen", 0, 0, "nil")>>)
          ELSE /\ UNCHANGED <<bound, lst>>
               /\ ev' = Ret("NewListener", l, 0, now, 0, "bind", <<U("Listen", 0, 0, "bind")>>)
    /\ UNCHANGED <<now, ctor, tr, conns, sock, rcall, wcall>>

\* Faulty variant: the socket is bound before the certificate is loaded.
TLSStepsBindFirst == <<"Listen", "LoadX509KeyPair">>

\* The fallible calls of NewListenerTLS, in program order.
TLSSteps == <<"LoadX509KeyPair", "Listen">>

\* The error each of them returns when it fails.
TLSErr(step) == IF step = "LoadX509KeyPair" THEN "cert" ELSE "bind"

\* NewListenerTLS is entered: config := &tls.Config{} with its NextProtos.
NewListenerTLS(l, readTimeout, writeTimeout) ==
    /\ lst[l].state = "none"
    /\ ctor = NoCtor
    /\ ctor' = [pc |-> 1, l |-> l, ReadTimeout |-> readTimeout,
                WriteTimeout |-> writeTimeout, under |-> <<>>]
    /\ ev' = NoEv
    /\ UNCHANGED <<now, lst, bound, tr, conns, sock, rcall, wcall>>

\* NewListenerTLS makes its next call; a failure returns (nil, err) at once and
\* the last success returns the *Listener over tls.NewListener(conn, config).
TLSStep ==
    /\ ctor.pc \in DOMAIN TLSSteps
    /\ \E ok \in BOOLEAN :
          LET step == TLSSteps[ctor.pc]
              err == IF ok THEN "nil" ELSE TLSErr(step)
              under == Append(ctor.under, U(step, 0, 0, err))
          IN /\ bound' = IF ok /\ step = "Listen" THEN bound \cup {ctor.l} ELSE bound
             /\ IF ~ok
                THEN /\ ctor' = NoCtor
                     /\ lst' = lst
                     /\ ev' = Ret("NewListenerTLS", ctor.l, 0, now, 0, err, under)
                ELSE IF ctor.pc < Len(TLSSteps)
                THEN /\ ctor' = [ctor EXCEPT !.pc = @ + 1, !.under = under]
                     /\ lst' = lst
                     /\ ev' = NoEv
                ELSE /\ ctor' = NoCtor
                     /\ lst' = [lst EXCEPT ![ctor.l] =
                           [state |-> "open", ReadTimeout |-> ctor.ReadTimeout,
                            WriteTimeout |-> ctor.WriteTimeout,
                            NextProtos |-> <<"http/1.1">>]]
                     /\ ev' = Ret("NewListenerTLS", ctor.l, 0, now, 0, "nil", under)
    /\ UNCHANGED <<now, tr, conns, sock, rcall, wcall>>

\* ------------------------------------------------------------ NewTransport
\* package timeout: NewTransport(addr, timeout); the closure captures timeout.
NewTransport(timeout) ==
    /\ tr = NoTransport
    /\ tr' = [pkg |-> "timeout", timeout |-> timeout, readTimeout |-> 0, writeTimeout |-> 0]
    /\ ev' = NoEv
    /\ UNCHANGED <<now, lst, bound, ctor, conns, sock, rcall, wcall>>

\* package httptimeout: NewTransport(addr, readTimeout, writeTimeout).
NewTransportRW(readTimeout, writeTimeout) ==
    /\ tr = NoTransport
    /\ tr' = [pkg |-> "httptimeout", timeout |-> 0,
              readTimeout |-> readTimeout, writeTimeout |-> writeTimeout]
    /\ ev' = NoEv
    /\ UNCHANGED <<now, lst, bound, ctor, conns, sock, rcall, wcall>>

\* The timeout handed to net.DialTimeout.
DialTimeoutArg == IF tr.pkg = "timeout" THEN tr.timeout ELSE tr.readTimeout

\* What net.DialTimeout can return: a connection, a refusal, or, with a
\* non-zero timeout, a connect timeout.
DialOutcomes(timeout) ==
    {[c |-> 0, err |-> "refused"]}
    \cup (IF timeout # 0 THEN {[c |-> 0, err |-> "timeout"]} ELSE {})
    \cup (IF Len(sock) < MaxConns THEN {[c |-> Len(sock) + 1, err |-> "nil"]} ELSE {})

\* if err != nil { return nil, err }
DialFails(err) == err # "nil"

\* Faulty variant: WriteTimeout is left at its zero value.
DialConnNoWriteTimeout(s) ==
    [Conn |-> s, ReadTimeout |-> tr.timeout, WriteTimeout |-> 0, from |-> "dial"]

\* package timeout: tc := &Conn{Conn: conn, ReadTimeout: timeout, WriteTimeout: timeout}
DialConn(s) ==
    [Conn |-> s, ReadTimeout |-> tr.timeout, WriteTimeout |-> tr.timeout, from |-> "dial"]

\* package httptimeout: tc := &Conn{Conn: conn, ReadTimeout: readTimeout, WriteTimeout: writeTimeout}
DialConnRW(s) ==
    [Conn |-> s, ReadTimeout |-> tr.readTimeout, WriteTimeout |-> tr.writeTimeout, from |-> "dial"]

\* t.Dial, as the HTTP client calls it.
Dial ==
    /\ tr # NoTransport
    /\ \E res \in DialOutcomes(DialTimeoutArg) :
          LET call == U("DialTimeout", DialTimeoutArg, res.c, res.err)
          IN /\ sock' = IF res.err = "nil" THEN Append(sock, NewSock) ELSE sock
             /\ IF DialFails(res.err)
                THEN /\ conns' = conns
                     /\ ev' = Ret("Dial", 0, 0, now, 0, res.err, <<call>>)
                ELSE /\ Len(conns) < MaxConns
                     /\ conns' = Append(conns,
                           IF tr.pkg = "timeout" THEN DialConn(res.c) ELSE DialConnRW(res.c))
                     /\ ev' = Ret("Dial", 0, Len(conns) + 1, now, 0, "nil", <<call>>)
    /\ UNCHANGED <<now, lst, bound, ctor, tr, rcall, wcall>>

\* ---------------------------------------------------------- specifications
\* The operations of a Conn.
ConnNext ==
    \/ \E c \in CIds : Read(c)
    \/ \E c \in CIds : ReadDone(c)
    \/ \E c \in CIds : ReadDeadlineExceeded(c)
    \/ \E c \in CIds : Write(c)
    \/ \E c \in CIds : WriteDone(c)
    \/ \E c \in CIds : WriteDeadlineExceeded(c)
    \/ \E c \in CIds : ConnClose(c)

\* The operations of a Listener and its constructors.
ListenerNext ==
    \/ \E l \in LIds : Accept(l)
    \/ \E l \in LIds : ListenerClose(l)
    \/ \E r, w \in Durations : NewListener(PlainAddr, r, w)
    \/ \E r, w \in Durations : NewListenerTLS(TLSAddr, r, w)
    \/ TLSStep

\* The outbound factory and its dial function.
TransportNext ==
    \/ \E t \in Durations : NewTransport(t)
    \/ \E r, w \in Durations : NewTransportRW(r, w)
    \/ Dial

Next == Tick \/ ConnNext \/ ListenerNext \/ TransportNext

Spec == Init /\ [][Next]_vars

\* One Conn over a fresh connection, built as Accept and Dial build it, with any
\* pair of timeouts.
InitConn ==
    /\ now = 1
    /\ lst = [l \in LIds |-> NoListener]
    /\ bound = {}
    /\ ctor = NoCtor
    /\ tr = NoTransport
    /\ \E r, w \in Durations :
          conns = <<[Conn |-> 1, ReadTimeout |-> r, WriteTimeout |-> w, from |-> "dial"]>>
    /\ sock = <<NewSock>>
    /\ rcall = [c \in CIds |-> NoCall]
    /\ wcall = [c \in CIds |-> NoCall]
    /\ ev = NoEv

SpecConn == InitConn /\ [][Tick \/ ConnNext]_vars

\* A server: its listeners are built, accept, and are closed, and the accepted
\* connections are closed.
SpecListener == Init /\ [][ListenerNext \/ \E c \in CIds : ConnClose(c)]_vars

\* A client: its transport is built and dials, and the dialed connections are
\* closed.
SpecTransport == Init /\ [][TransportNext \/ \E c \in CIds : ConnClose(c)]_vars

\* The clock runs, an expired deadline wakes the blocked call, and so does Close.
SpecConnFair ==
    /\ SpecConn
    /\ WF_vars(Tick)
    /\ \A c \in CIds :
          /\ WF_vars(ReadDeadlineExceeded(c))
          /\ WF_vars(WriteDeadlineExceeded(c))
          /\ WF_vars(ReadDone(c) /\ ~IsOpen(conns[c].Conn))
          /\ WF_vars(WriteDone(c) /\ ~IsOpen(conns[c].Conn))

\* ------------------------------------------------------------------ claims
IsIO(op) == op \in {"Read", "Write"}
SetterOf(op) == IF op = "Read" THEN "SetReadDeadline" ELSE "SetWriteDeadline"
TimeoutOf(c, op) == IF op = "Read" THEN conns[c].ReadTimeout ELSE conns[c].WriteTimeout

\* The underlying calls of a Conn.Read / Conn.Write are in order: first the
\* deadline-set of that direction, with value start + timeout, and only after it
\* the underlying call itself.
InOrder(c, op, start, under) ==
    /\ Len(under) >= 1
    /\ under[1].m = SetterOf(op)
    /\ under[1].arg = start + TimeoutOf(c, op)
    /\ \A i \in DOMAIN under : under[i].m = op => i > 1

\* C1: every underlying Read (Write) issued through the wrapper, pending or
\* returned, comes after a set of the read (write) deadline made in the same
\* call, and the value set is the time of the call plus ReadTimeout
\* (WriteTimeout).
C1_DeadlineSetBeforeIO ==
    /\ \A c \in DOMAIN conns :
          /\ rcall[c] # NoCall => InOrder(c, "Read", rcall[c].start, rcall[c].under)
          /\ wcall[c] # NoCall => InOrder(c, "Write", wcall[c].start, wcall[c].under)
    /\ IsIO(ev.op) => InOrder(ev.on, ev.op, ev.start, ev.under)

C1_Witness ==
    /\ ev.op = "Read" /\ Len(ev.under) = 2 /\ ev.under[2].err = "nil"
    /\ conns[ev.on].ReadTimeout > 0

\* C2: when the deadline-set fails, the call returns 0 and that error and the
\* underlying Read (Write) is not invoked: no call is pending behind a failed
\* deadline-set, and the returned trace holds the deadline-set alone.
C2_DeadlineErrorNoIO ==
    /\ \A c \in DOMAIN conns :
          /\ rcall[c] # NoCall => rcall[c].under[1].err = "nil"
          /\ wcall[c] # NoCall => wcall[c].under[1].err = "nil"
    /\ (IsIO(ev.op) /\ ev.under[1].err # "nil") =>
          /\ ev.n = 0
          /\ ev.err = ev.under[1].err
          /\ Len(ev.under) = 1

C2_Witness == ev.op = "Read" /\ ev.under[1].err = "closed" /\ ev.n = 0

\* C4: when the deadline-set succeeds the underlying Read (Write) is invoked
\* exactly once, with the caller's buffer, and the wrapper returns that call's
\* count and error unchanged.
C4_Transparent ==
    (IsIO(ev.op) /\ ev.under[1].err = "nil") =>
        /\ Len(ev.under) = 2
        /\ ev.under[2].m = ev.op
        /\ ev.under[2].arg = MaxBuf
        /\ ev.n = ev.under[2].n
        /\ ev.err = ev.under[2].err

C4_Witness == ev.op = "Read" /\ Len(ev.under) = 2 /\ ev.err = "EOF"

\* A call that returns from the underlying Read (Write) when the clock has
\* reached its deadline, on a connection still open, returns the timeout error.
TimesOutPastDeadline ==
    (IsIO(ev.op) /\ Len(ev.under) = 2 /\ now >= ev.under[1].arg /\ ev.err # "closed") =>
        ev.err = "timeout"

\* C3: a Read (Write) that ends with a timeout ends no earlier than its start
\* plus ReadTimeout (WriteTimeout); once the clock has reached start plus
\* timeout the call ends with a timeout and nothing else, unless the connection
\* was closed under it; and a blocked Read (Write) does not block forever, with
\* no help from the peer.
C3_TimeoutAtDeadline ==
    /\ [](ev.op = "Read" /\ ev.err = "timeout" => now >= ev.start + conns[ev.on].ReadTimeout)
    /\ [](ev.op = "Write" /\ ev.err = "timeout" => now >= ev.start + conns[ev.on].WriteTimeout)
    /\ []TimesOutPastDeadline
    /\ \A c \in CIds : (rcall[c] # NoCall) ~> (rcall[c] = NoCall)
    /\ \A c \in CIds : (wcall[c] # NoCall) ~> (wcall[c] = NoCall)

C3_Witness ==
    /\ ev.op = "Write" /\ ev.err = "timeout"
    /\ conns[ev.on].WriteTimeout > 0
    /\ now = ev.start + conns[ev.on].WriteTimeout

\* C9: no step moves a read deadline or a write deadline of a connection
\* backwards, and the deadline a Read (Write) has set is not earlier than the
\* one it replaced.
C9_DeadlineMovesForward ==
    /\ [](\A c \in DOMAIN conns :
            /\ rcall[c] # NoCall => rcall[c].under[1].arg >= rcall[c].was
            /\ wcall[c] # NoCall => wcall[c].under[1].arg >= wcall[c].was)
    /\ [][\A s \in DOMAIN sock :
            /\ sock'[s].rdl >= sock[s].rdl
            /\ sock'[s].wdl >= sock[s].wdl]_vars

C9_Witness ==
    \E c \in DOMAIN conns :
        /\ rcall[c] # NoCall
        /\ rcall[c].was > 0
        /\ sock[conns[c].Conn].rdl > rcall[c].was

\* C10: a step that starts a Read leaves the write deadline alone, a step that
\* starts a Write leaves the read deadline alone, no step changes a Conn's
\* timeouts, and the deadline in force for a pending Read (Write) on an open
\* connection is the one that call set.
C10_DirectionsIndependent ==
    /\ [](\A c \in DOMAIN conns :
            /\ (rcall[c] # NoCall /\ IsOpen(conns[c].Conn)) =>
                   sock[conns[c].Conn].rdl = rcall[c].under[1].arg
            /\ (wcall[c] # NoCall /\ IsOpen(conns[c].Conn)) =>
                   sock[conns[c].Conn].wdl = wcall[c].under[1].arg)
    /\ [][\A c \in DOMAIN conns :
            /\ conns'[c] = conns[c]
            /\ (rcall[c] = NoCall /\ rcall'[c] # NoCall) =>
                   sock'[conns[c].Conn].wdl = sock[conns[c].Conn].wdl
            /\ (wcall[c] = NoCall /\ wcall'[c] # NoCall) =>
                   sock'[conns[c].Conn].rdl = sock[conns[c].Conn].rdl]_vars

C10_Witness ==
    \E c \in DOMAIN conns :
        /\ rcall[c] # NoCall
        /\ wcall[c] # NoCall
        /\ rcall[c].start # wcall[c].start
        /\ sock[conns[c].Conn].rdl # sock[conns[c].Conn].wdl

\* Every wrapper wraps a connection of its own that the underlying Accept or
\* DialTimeout returned.
WrapsRealConns ==
    /\ \A c \in DOMAIN conns : conns[c].Conn \in DOMAIN sock
    /\ \A c, d \in DOMAIN conns : conns[c].Conn = conns[d].Conn => c = d

\* C5: a successful Accept returns a wrapper of the connection the underlying
\* Accept just returned, and every accepted Conn carries the ReadTimeout and
\* WriteTimeout of the listener that accepted it; a failed Accept returns the
\* underlying error and nil, and wraps nothing.
C5_AcceptCopiesTimeouts ==
    /\ WrapsRealConns
    /\ Len(conns) = Len(sock)
    /\ \A c \in DOMAIN conns :
          conns[c].from \in LIds =>
              /\ conns[c].ReadTimeout = lst[conns[c].from].ReadTimeout
              /\ conns[c].WriteTimeout = lst[conns[c].from].WriteTimeout
    /\ ev.op = "Accept" =>
          /\ ev.err = ev.under[1].err
          /\ IF ev.err = "nil"
             THEN /\ ev.conn = Len(conns)
                  /\ conns[ev.conn].Conn = ev.under[1].n
                  /\ conns[ev.conn].from = ev.on
             ELSE ev.conn = 0

C5_Witness ==
    \E c, d \in DOMAIN conns :
        /\ conns[c].from \in LIds /\ conns[d].from \in LIds
        /\ conns[c].from # conns[d].from
        /\ conns[c].ReadTimeout # conns[d].ReadTimeout
        /\ conns[c].ReadTimeout # conns[c].WriteTimeout

\* A Read (Write) called now would set the deadline and reach the underlying
\* Read (Write).
Usable(c) ==
    /\ ENABLED (Read(c) /\ rcall'[c] # NoCall
                /\ sock'[conns[c].Conn].rdl = now + conns[c].ReadTimeout)
    /\ ENABLED (Write(c) /\ wcall'[c] # NoCall
                /\ sock'[conns[c].Conn].wdl = now + conns[c].WriteTimeout)

\* C6: an Accept on a closed listener fails with the closed error and returns
\* no connection, a closed listener stays closed, and an accepted connection is
\* usable until its own Close, whatever becomes of its listener: no other step
\* closes it.
C6_CloseLeavesConns ==
    /\ []((ev.op = "Accept" /\ lst[ev.on].state = "closed") =>
            (ev.err = "closed" /\ ev.conn = 0))
    /\ [](\A c \in DOMAIN conns : IsOpen(conns[c].Conn) => Usable(c))
    /\ [][/\ \A l \in LIds : lst[l].state = "closed" => lst'[l].state = "closed"
          /\ \A c \in DOMAIN conns :
                (IsOpen(conns[c].Conn) /\ ~(ev'.op = "Close" /\ ev'.on = c)) =>
                    IsOpen(conns[c].Conn)']_vars

C6_Witness ==
    /\ ev.op = "Accept" /\ ev.err = "closed"
    /\ \E c \in DOMAIN conns : conns[c].from = ev.on /\ Usable(c)
    /\ \E c \in DOMAIN conns : conns[c].from = ev.on /\ ~IsOpen(conns[c].Conn)

\* C7: NewListenerTLS loads the key pair before it binds: while the key pair
\* is not loaded the call has bound no socket; a call that fails returns no
\* listener and leaves no socket bound, and one that fails on the certificate
\* never called Listen.
C7_CertBeforeBind ==
    /\ \A l \in bound : lst[l].state = "open" \/ ctor.l = l
    /\ (ctor # NoCtor /\ \A i \in DOMAIN ctor.under : ctor.under[i].m # "LoadX509KeyPair") =>
          ctor.l \notin bound
    /\ (ev.op = "NewListenerTLS" /\ ev.err # "nil") =>
          /\ lst[ev.on].state = "none"
          /\ ev.on \notin bound
    /\ (ev.op = "NewListenerTLS" /\ ev.err = "cert") =>
          \A i \in DOMAIN ev.under : ev.under[i].m # "Listen"
    /\ (ev.op = "NewListenerTLS" /\ ev.err = "nil") =>
          /\ lst[ev.on].state = "open"
          /\ ev.on \in bound

C7_Witness ==
    /\ ev.op = "NewListenerTLS" /\ ev.err = "cert"
    /\ bound = {PlainAddr}

====
